---- MODULE Spec2Model ----
(***************************************************************************)
(* PrefixSetLoader::load (crates/trie/db/src/prefix_set.rs).               *)
(*                                                                         *)
(* The loader walks the account change log and the storage change log of   *)
(* an inclusive block range, hashes the collected addresses and storage    *)
(* keys on a pool of parallel workers, folds the digests sequentially into *)
(* an account-level prefix set, a per-account storage prefix-set map and   *)
(* the set of destroyed accounts, and freezes the result.                  *)
(*                                                                         *)
(* Scaling: a raw key is a small natural number, a digest is one byte and  *)
(* its nibble path has two nibbles (B256 has 32 bytes and 64 nibbles).     *)
(* The key hasher is collision free on the modelled keys, as a             *)
(* cryptographic hash is taken to be.                                      *)
(***************************************************************************)
EXTENDS Integers, Sequences, FiniteSets, TLC

\* ---------------------------------------------------------------- bounds
\* Total number of change records (account + storage) held by the store.
MaxChanges == 2
\* Number of threads of the pool that runs the parallel digest stages.
MaxWorkers == 2

\* Block numbers of the store and of the requested range.
Blocks == 4..6
\* Raw account addresses and raw storage slot keys.
Addresses == {1, 2}
StorageKeys == {3, 4}
\* Errors a store read can surface (variants of DatabaseError).
DatabaseErrors == {"Read", "Decode"}

Workers == 1..MaxWorkers

\* Address::ZERO, the smallest address: the address half of both bounds of
\* the composite storage range.
ZeroAddress == 0

VARIABLES
    AccountChangeSets,    \* table: <<block, address>> in key order
    StorageChangeSets,    \* table: <<block, address, key>> in key order
    HashedAccounts,       \* table: digests present in the current snapshot
    range,                \* <<lo, hi>>, the argument of load
    pc,                   \* position of load
    account_cursor,       \* position of the account change log walker
    storage_cursor,       \* position of the storage change log walker
    addresses,            \* Vec of addresses read from the account log
    hashed_addresses,     \* Vec of (address, digest), one slot per address
    storage_entries,      \* Vec of (address, key) read from the storage log
    storage_hashes,       \* Vec of (digest, digest), one slot per entry
    account_prefix_set,   \* PrefixSetMut: keys in insertion order
    storage_prefix_sets,  \* HashMap digest -> PrefixSetMut
    destroyed_accounts,   \* HashSet of digests
    idx,                  \* index of the sequential builder loops
    claimed,              \* worker -> index of the entry it is hashing, or 0
    taken,                \* indices of the current stage handed to a worker
    usedWorkers,          \* history: workers that hashed at least one entry
    log,                  \* history: store reads performed, in order
    result                \* what load returned

store == <<AccountChangeSets, StorageChangeSets, HashedAccounts, range>>
locals == <<addresses, hashed_addresses, storage_entries, storage_hashes,
            account_prefix_set, storage_prefix_sets, destroyed_accounts, idx>>
cursors == <<account_cursor, storage_cursor>>
pool == <<claimed, taken, usedWorkers>>
vars == <<store, pc, cursors, locals, pool, log, result>>

\* ------------------------------------------------------- pure functions

\* KeyHasher::hash_key: a total, deterministic map from a raw key to a digest.
hash_key(k) == (k * 151 + 7) % 256

\* Nibbles::unpack: the digest as its sequence of half-bytes, high first.
unpack(d) == <<d \div 16, d % 16>>

\* Lexicographic order on sequences of numbers (nibble paths, table keys).
RECURSIVE SeqLess(_, _)
SeqLess(s, t) ==
    IF t = <<>> THEN FALSE
    ELSE IF s = <<>> THEN TRUE
    ELSE IF s[1] # t[1] THEN s[1] < t[1]
    ELSE SeqLess(Tail(s), Tail(t))

\* The rows of a table in the order a cursor yields them: ascending by key,
\* then by duplicate value.
RECURSIVE TableOf(_)
TableOf(S) ==
    IF S = {} THEN <<>>
    ELSE LET m == CHOOSE x \in S : \A y \in S : x = y \/ SeqLess(x, y)
         IN <<m>> \o TableOf(S \ {m})

\* Vec::sort_unstable on nibble paths (insertion of the head into the sorted tail).
RECURSIVE InsertSorted(_, _)
InsertSorted(x, s) ==
    IF s = <<>> THEN <<x>>
    ELSE IF SeqLess(s[1], x) THEN <<s[1]>> \o InsertSorted(x, Tail(s))
    ELSE <<x>> \o s

RECURSIVE Sort(_)
Sort(s) == IF s = <<>> THEN <<>> ELSE InsertSorted(s[1], Sort(Tail(s)))

\* Vec::dedup: removes consecutive repeated elements.
RECURSIVE Dedup(_)
Dedup(s) ==
    IF Len(s) <= 1 THEN s
    ELSE IF s[1] = s[2] THEN Dedup(Tail(s))
    ELSE <<s[1]>> \o Dedup(Tail(s))

\* PrefixSetMut::insert: pushes the path onto the key vector.
insert(keys, path) == Append(keys, path)

\* PrefixSetMut::freeze: the keys sorted and deduplicated.
freeze(keys) == Dedup(Sort(keys))

\* BlockNumberAddress::range: the composite keys from (lo, ZERO) up to, but
\* not including, (hi + 1, ZERO).
InStorageRange(key, r) ==
    /\ ~SeqLess(key, <<r[1], ZeroAddress>>)
    /\ SeqLess(key, <<r[2] + 1, ZeroAddress>>)

\* DbCursorRO::walk_range: the position of the first row whose key is not
\* below the start of the range (Len + 1 when there is none).
SeekAccount(tbl, lo) ==
    LET hits == {i \in 1..Len(tbl) : tbl[i][1] >= lo}
    IN IF hits = {} THEN Len(tbl) + 1
       ELSE CHOOSE i \in hits : \A j \in hits : i <= j

SeekStorage(tbl, r) ==
    LET hits == {i \in 1..Len(tbl) :
                    ~SeqLess(<<tbl[i][1], tbl[i][2]>>, <<r[1], ZeroAddress>>)}
    IN IF hits = {} THEN Len(tbl) + 1
       ELSE CHOOSE i \in hits : \A j \in hits : i <= j

\* An output slot of a parallel collect that no worker has written yet.
EmptySlot == <<>>

NoResult == [tag |-> "None"]
Ok(v) == [tag |-> "Ok", value |-> v]
Err(e) == [tag |-> "Err", error |-> e]

\* ------------------------------------------------------------------ Init

AccountRecords == Blocks \X Addresses
StorageRecords == Blocks \X Addresses \X StorageKeys

Init ==
    /\ \E A \in SUBSET AccountRecords, S \in SUBSET StorageRecords :
          /\ Cardinality(A) + Cardinality(S) <= MaxChanges
          /\ AccountChangeSets = TableOf(A)
          /\ StorageChangeSets = TableOf(S)
    /\ HashedAccounts \in SUBSET {hash_key(a) : a \in Addresses}
    /\ range \in Blocks \X Blocks
    /\ pc = "open_account_changesets"
    /\ account_cursor = 0
    /\ storage_cursor = 0
    /\ addresses = <<>>
    /\ hashed_addresses = <<>>
    /\ storage_entries = <<>>
    /\ storage_hashes = <<>>
    /\ account_prefix_set = <<>>
    /\ storage_prefix_sets = <<>>
    /\ destroyed_accounts = {}
    /\ idx = 0
    /\ claimed = [w \in Workers |-> 0]
    /\ taken = {}
    /\ usedWorkers = {}
    /\ log = <<>>
    /\ result = NoResult

\* --------------------------------------------------------------- actions

\* The `?` operator on a failed store read: load returns the error.
Propagate(table, op, e) ==
    /\ log' = Append(log, <<table, op, e>>)
    /\ result' = Err(e)
    /\ pc' = "failed"

Succeed(table, op) == log' = Append(log, <<table, op, "Ok">>)

\* line 54: self.cursor_read::<tables::AccountChangeSets>()?
OpenAccountChangeSets ==
    /\ pc = "open_account_changesets"
    /\ \/ /\ Succeed("AccountChangeSets", "cursor_read")
          /\ pc' = "open_hashed_accounts"
          /\ UNCHANGED result
       \/ \E e \in DatabaseErrors : Propagate("AccountChangeSets", "cursor_read", e)
    /\ UNCHANGED <<store, cursors, locals, pool>>

\* line 55: self.cursor_read::<tables::HashedAccounts>()?
OpenHashedAccounts ==
    /\ pc = "open_hashed_accounts"
    /\ \/ /\ Succeed("HashedAccounts", "cursor_read")
          /\ pc' = "walk_account_changesets"
          /\ UNCHANGED result
       \/ \E e \in DatabaseErrors : Propagate("HashedAccounts", "cursor_read", e)
    /\ UNCHANGED <<store, cursors, locals, pool>>

\* line 56: account_changeset_cursor.walk_range(range.clone())?
WalkAccountChangeSets ==
    /\ pc = "walk_account_changesets"
    /\ \/ /\ Succeed("AccountChangeSets", "walk_range")
          /\ account_cursor' = SeekAccount(AccountChangeSets, range[1])
          /\ pc' = "read_account_entry"
          /\ UNCHANGED result
       \/ /\ \E e \in DatabaseErrors : Propagate("AccountChangeSets", "walk_range", e)
          /\ UNCHANGED account_cursor
    /\ UNCHANGED <<store, storage_cursor, locals, pool>>

\* The walker has a next row and its block number is not above the end of the
\* inclusive range.
AccountWalkerHasNext ==
    /\ account_cursor <= Len(AccountChangeSets)
    /\ AccountChangeSets[account_cursor][1] <= range[2]

\* A turn of the account loop that drops a row it failed to read and goes on
\* with the next one.
ReadAccountEntry_SkipOnError ==
    /\ pc = "read_account_entry"
    /\ \/ /\ AccountWalkerHasNext
          /\ Succeed("AccountChangeSets", "next")
          /\ addresses' = Append(addresses, AccountChangeSets[account_cursor][2])
          /\ account_cursor' = account_cursor + 1
          /\ UNCHANGED <<pc, result, hashed_addresses, taken>>
       \/ /\ ~AccountWalkerHasNext
          /\ hashed_addresses' = [i \in 1..Len(addresses) |-> EmptySlot]
          /\ taken' = {}
          /\ pc' = "hash_addresses"
          /\ UNCHANGED <<log, result, addresses, account_cursor>>
       \/ /\ AccountWalkerHasNext
          /\ \E e \in DatabaseErrors :
                log' = Append(log, <<"AccountChangeSets", "next", e>>)
          /\ account_cursor' = account_cursor + 1
          /\ UNCHANGED <<pc, result, addresses, hashed_addresses, taken>>
    /\ UNCHANGED <<store, storage_cursor, storage_entries, storage_hashes,
                   account_prefix_set, storage_prefix_sets, destroyed_accounts,
                   idx, claimed, usedWorkers>>

\* lines 56-59: one turn of the loop over the account change log; when the
\* walker is exhausted the parallel collect of lines 62-65 allocates one
\* output slot per address.
ReadAccountEntry ==
    /\ pc = "read_account_entry"
    /\ \/ /\ AccountWalkerHasNext
          /\ Succeed("AccountChangeSets", "next")
          /\ addresses' = Append(addresses, AccountChangeSets[account_cursor][2])
          /\ account_cursor' = account_cursor + 1
          /\ UNCHANGED <<pc, result, hashed_addresses, taken>>
       \/ /\ ~AccountWalkerHasNext
          /\ hashed_addresses' = [i \in 1..Len(addresses) |-> EmptySlot]
          /\ taken' = {}
          /\ pc' = "hash_addresses"
          /\ UNCHANGED <<log, result, addresses, account_cursor>>
       \/ /\ \E e \in DatabaseErrors : Propagate("AccountChangeSets", "next", e)
          /\ UNCHANGED <<addresses, account_cursor, hashed_addresses, taken>>
    /\ UNCHANGED <<store, storage_cursor, storage_entries, storage_hashes,
                   account_prefix_set, storage_prefix_sets, destroyed_accounts,
                   idx, claimed, usedWorkers>>

\* rayon par_iter: an idle worker takes an entry of the current stage that
\* no worker has taken yet.
TakeEntry(w) ==
    /\ pc \in {"hash_addresses", "hash_storage"}
    /\ claimed[w] = 0
    /\ \E i \in 1..(IF pc = "hash_addresses" THEN Len(addresses)
                    ELSE Len(storage_entries)) :
          /\ i \notin taken
          /\ taken' = taken \cup {i}
          /\ claimed' = [claimed EXCEPT ![w] = i]
    /\ UNCHANGED <<store, pc, cursors, locals, usedWorkers, log, result>>

\* A worker that pushes its digest onto the output in the order of completion
\* (the first slot still empty) instead of writing the slot of its entry.
HashAddress_CompletionOrder(w) ==
    /\ pc = "hash_addresses"
    /\ claimed[w] # 0
    /\ LET free == {i \in 1..Len(hashed_addresses) : hashed_addresses[i] = EmptySlot}
           first == CHOOSE i \in free : \A j \in free : i <= j
       IN hashed_addresses' =
             [hashed_addresses EXCEPT ![first] =
                 <<addresses[claimed[w]], hash_key(addresses[claimed[w]])>>]
    /\ claimed' = [claimed EXCEPT ![w] = 0]
    /\ usedWorkers' = usedWorkers \cup {w}
    /\ UNCHANGED <<store, pc, cursors, addresses, storage_entries, storage_hashes,
                   account_prefix_set, storage_prefix_sets, destroyed_accounts,
                   idx, taken, log, result>>

\* lines 62-65: .map(|&address| (address, KH::hash_key(address))), the
\* digest written to the slot of the entry.
HashAddress(w) ==
    /\ pc = "hash_addresses"
    /\ claimed[w] # 0
    /\ hashed_addresses' =
          [hashed_addresses EXCEPT ![claimed[w]] =
              <<addresses[claimed[w]], hash_key(addresses[claimed[w]])>>]
    /\ claimed' = [claimed EXCEPT ![w] = 0]
    /\ usedWorkers' = usedWorkers \cup {w}
    /\ UNCHANGED <<store, pc, cursors, addresses, storage_entries, storage_hashes,
                   account_prefix_set, storage_prefix_sets, destroyed_accounts,
                   idx, taken, log, result>>

\* line 65: .collect() returns when every entry has been hashed.
CollectHashedAddresses ==
    /\ pc = "hash_addresses"
    /\ taken = 1..Len(addresses)
    /\ \A w \in Workers : claimed[w] = 0
    /\ idx' = 1
    /\ pc' = "build_accounts"
    /\ UNCHANGED <<store, cursors, addresses, hashed_addresses, storage_entries,
                   storage_hashes, account_prefix_set, storage_prefix_sets,
                   destroyed_accounts, pool, log, result>>

\* DbCursorRO::seek_exact on the hashed-account snapshot: is_some().
SeekExactIsSome(hashed_address) == hashed_address \in HashedAccounts

\* The account path inserted only for an account missing from the snapshot.
AccountTouched_OnlyDestroyed(keys, hashed_address) ==
    IF SeekExactIsSome(hashed_address) THEN keys
    ELSE insert(keys, unpack(hashed_address))

\* line 69: account_prefix_set.insert(Nibbles::unpack(*hashed_address))
AccountTouched(keys, hashed_address) == insert(keys, unpack(hashed_address))

\* The destroyed check with its condition inverted (is_some for is_none).
DestroyedAfter_Inverted(destroyed, hashed_address) ==
    IF SeekExactIsSome(hashed_address) THEN destroyed \cup {hashed_address}
    ELSE destroyed

\* lines 70-72: the digest joins destroyed_accounts when seek_exact finds no
\* entry of the snapshot.
DestroyedAfter(destroyed, hashed_address) ==
    IF SeekExactIsSome(hashed_address) THEN destroyed
    ELSE destroyed \cup {hashed_address}

\* lines 68-73: one turn of the loop over the hashed addresses; the loop ends
\* when every hashed address has been consumed.
BuildAccount ==
    /\ pc = "build_accounts"
    /\ \/ /\ idx <= Len(hashed_addresses)
          /\ LET hashed_address == hashed_addresses[idx][2] IN
             /\ account_prefix_set' = AccountTouched(account_prefix_set, hashed_address)
             /\ \/ /\ Succeed("HashedAccounts", "seek_exact")
                   /\ destroyed_accounts' = DestroyedAfter(destroyed_accounts, hashed_address)
                   /\ idx' = idx + 1
                   /\ UNCHANGED <<pc, result>>
                \/ /\ \E e \in DatabaseErrors : Propagate("HashedAccounts", "seek_exact", e)
                   /\ UNCHANGED <<destroyed_accounts, idx>>
       \/ /\ idx > Len(hashed_addresses)
          /\ pc' = "open_storage_changesets"
          /\ UNCHANGED <<account_prefix_set, destroyed_accounts, idx, log, result>>
    /\ UNCHANGED <<store, cursors, addresses, hashed_addresses, storage_entries,
                   storage_hashes, storage_prefix_sets, pool>>

\* line 76: self.cursor_dup_read::<tables::StorageChangeSets>()?
OpenStorageChangeSets ==
    /\ pc = "open_storage_changesets"
    /\ \/ /\ Succeed("StorageChangeSets", "cursor_dup_read")
          /\ pc' = "walk_storage_changesets"
          /\ UNCHANGED result
       \/ \E e \in DatabaseErrors : Propagate("StorageChangeSets", "cursor_dup_read", e)
    /\ UNCHANGED <<store, cursors, locals, pool>>

\* lines 77-78: storage_cursor.walk_range(BlockNumberAddress::range(range))?
WalkStorageChangeSets ==
    /\ pc = "walk_storage_changesets"
    /\ \/ /\ Succeed("StorageChangeSets", "walk_range")
          /\ storage_cursor' = SeekStorage(StorageChangeSets, range)
          /\ pc' = "read_storage_entry"
          /\ UNCHANGED result
       \/ /\ \E e \in DatabaseErrors : Propagate("StorageChangeSets", "walk_range", e)
          /\ UNCHANGED storage_cursor
    /\ UNCHANGED <<store, account_cursor, locals, pool>>

\* The walker has a next row and its composite key lies in the storage range.
StorageWalkerHasNext ==
    /\ storage_cursor <= Len(StorageChangeSets)
    /\ InStorageRange(<<StorageChangeSets[storage_cursor][1],
                        StorageChangeSets[storage_cursor][2]>>, range)

\* A storage loop that stops reading at a failed row and goes on with the
\* entries collected so far.
ReadStorageEntry_BreakOnError ==
    /\ pc = "read_storage_entry"
    /\ \/ /\ StorageWalkerHasNext
          /\ Succeed("StorageChangeSets", "next")
          /\ storage_entries' = Append(storage_entries,
                                       <<StorageChangeSets[storage_cursor][2],
                                         StorageChangeSets[storage_cursor][3]>>)
          /\ storage_cursor' = storage_cursor + 1
          /\ UNCHANGED <<pc, result, storage_hashes, taken>>
       \/ /\ ~StorageWalkerHasNext
          /\ storage_hashes' = [i \in 1..Len(storage_entries) |-> EmptySlot]
          /\ taken' = {}
          /\ pc' = "hash_storage"
          /\ UNCHANGED <<log, result, storage_entries, storage_cursor>>
       \/ /\ \E e \in DatabaseErrors :
                log' = Append(log, <<"StorageChangeSets", "next", e>>)
          /\ storage_hashes' = [i \in 1..Len(storage_entries) |-> EmptySlot]
          /\ taken' = {}
          /\ pc' = "hash_storage"
          /\ UNCHANGED <<result, storage_entries, storage_cursor>>
    /\ UNCHANGED <<store, account_cursor, addresses, hashed_addresses,
                   account_prefix_set, storage_prefix_sets, destroyed_accounts,
                   idx, claimed, usedWorkers>>

\* lines 78-81: one turn of the loop over the storage change log; when the
\* walker is exhausted the parallel collect of lines 84-91 allocates one
\* output slot per entry.
ReadStorageEntry ==
    /\ pc = "read_storage_entry"
    /\ \/ /\ StorageWalkerHasNext
          /\ Succeed("StorageChangeSets", "next")
          /\ storage_entries' = Append(storage_entries,
                                       <<StorageChangeSets[storage_cursor][2],
                                         StorageChangeSets[storage_cursor][3]>>)
          /\ storage_cursor' = storage_cursor + 1
          /\ UNCHANGED <<pc, result, storage_hashes, taken>>
       \/ /\ ~StorageWalkerHasNext
          /\ storage_hashes' = [i \in 1..Len(storage_entries) |-> EmptySlot]
          /\ taken' = {}
          /\ pc' = "hash_storage"
          /\ UNCHANGED <<log, result, storage_entries, storage_cursor>>
       \/ /\ \E e \in DatabaseErrors : Propagate("StorageChangeSets", "next", e)
          /\ UNCHANGED <<storage_entries, storage_cursor, storage_hashes, taken>>
    /\ UNCHANGED <<store, account_cursor, addresses, hashed_addresses,
                   account_prefix_set, storage_prefix_sets, destroyed_accounts,
                   idx, claimed, usedWorkers>>

\* lines 84-91: .map(|&(address, key)| (hash_key(address), hash_key(key))),
\* the pair of digests written to the slot of the entry.
HashStorageEntry(w) ==
    /\ pc = "hash_storage"
    /\ claimed[w] # 0
    /\ storage_hashes' =
          [storage_hashes EXCEPT ![claimed[w]] =
              <<hash_key(storage_entries[claimed[w]][1]),
                hash_key(storage_entries[claimed[w]][2])>>]
    /\ claimed' = [claimed EXCEPT ![w] = 0]
    /\ usedWorkers' = usedWorkers \cup {w}
    /\ UNCHANGED <<store, pc, cursors, addresses, hashed_addresses, storage_entries,
                   account_prefix_set, storage_prefix_sets, destroyed_accounts,
                   idx, taken, log, result>>

\* line 91: .collect() returns when every entry has been hashed.
CollectStorageHashes ==
    /\ pc = "hash_storage"
    /\ taken = 1..Len(storage_entries)
    /\ \A w \in Workers : claimed[w] = 0
    /\ idx' = 1
    /\ pc' = "build_storage"
    /\ UNCHANGED <<store, cursors, addresses, hashed_addresses, storage_entries,
                   storage_hashes, account_prefix_set, storage_prefix_sets,
                   destroyed_accounts, pool, log, result>>

\* The storage branch leaving the account-level set alone.
StorageTouchesAccount_Skipped(keys, hashed_address) == keys

\* line 95: account_prefix_set.insert(Nibbles::unpack(hashed_address))
StorageTouchesAccount(keys, hashed_address) == insert(keys, unpack(hashed_address))

\* The per-account set replaced by a fresh one on every entry.
StorageSlotTouched_Overwrite(sets, hashed_address, hashed_key) ==
    [k \in DOMAIN sets \cup {hashed_address} |->
        IF k = hashed_address THEN insert(<<>>, unpack(hashed_key)) ELSE sets[k]]

\* lines 96-99: storage_prefix_sets.entry(hashed_address).or_default()
\*                   .insert(Nibbles::unpack(hashed_key))
StorageSlotTouched(sets, hashed_address, hashed_key) ==
    IF hashed_address \in DOMAIN sets
    THEN [sets EXCEPT ![hashed_address] = insert(@, unpack(hashed_key))]
    ELSE sets @@ (hashed_address :> insert(<<>>, unpack(hashed_key)))

\* A storage loop that also runs the destroyed check on the account of every
\* storage entry.
BuildStorage_ProbesSnapshot ==
    /\ pc = "build_storage"
    /\ \/ /\ idx <= Len(storage_hashes)
          /\ LET hashed_address == storage_hashes[idx][1]
                 hashed_key == storage_hashes[idx][2]
             IN /\ account_prefix_set' =
                      StorageTouchesAccount(account_prefix_set, hashed_address)
                /\ storage_prefix_sets' =
                      StorageSlotTouched(storage_prefix_sets, hashed_address, hashed_key)
                /\ destroyed_accounts' = DestroyedAfter(destroyed_accounts, hashed_address)
          /\ idx' = idx + 1
          /\ UNCHANGED pc
       \/ /\ idx > Len(storage_hashes)
          /\ pc' = "assemble"
          /\ UNCHANGED <<account_prefix_set, storage_prefix_sets, destroyed_accounts, idx>>
    /\ UNCHANGED <<store, cursors, addresses, hashed_addresses, storage_entries,
                   storage_hashes, pool, log, result>>

\* lines 94-100: one turn of the loop over the storage digests; the loop ends
\* when every pair has been consumed.
BuildStorage ==
    /\ pc = "build_storage"
    /\ \/ /\ idx <= Len(storage_hashes)
          /\ LET hashed_address == storage_hashes[idx][1]
                 hashed_key == storage_hashes[idx][2]
             IN /\ account_prefix_set' =
                      StorageTouchesAccount(account_prefix_set, hashed_address)
                /\ storage_prefix_sets' =
                      StorageSlotTouched(storage_prefix_sets, hashed_address, hashed_key)
          /\ idx' = idx + 1
          /\ UNCHANGED pc
       \/ /\ idx > Len(storage_hashes)
          /\ pc' = "assemble"
          /\ UNCHANGED <<account_prefix_set, storage_prefix_sets, idx>>
    /\ UNCHANGED <<store, cursors, addresses, hashed_addresses, storage_entries,
                   storage_hashes, destroyed_accounts, pool, log, result>>

\* The aggregate built from key vectors that were deduplicated but not sorted.
TriePrefixSets_Unsorted(keys, sets, destroyed) ==
    [account_prefix_set |-> Dedup(keys),
     storage_prefix_sets |-> [k \in DOMAIN sets |-> Dedup(sets[k])],
     destroyed_accounts |-> destroyed]

\* The aggregate built from key vectors that were sorted but not deduplicated.
TriePrefixSets_Duplicates(keys, sets, destroyed) ==
    [account_prefix_set |-> Sort(keys),
     storage_prefix_sets |-> [k \in DOMAIN sets |-> Sort(sets[k])],
     destroyed_accounts |-> destroyed]

\* lines 102-109: TriePrefixSets { .. } with every prefix set frozen.
TriePrefixSets(keys, sets, destroyed) ==
    [account_prefix_set |-> freeze(keys),
     storage_prefix_sets |-> [k \in DOMAIN sets |-> freeze(sets[k])],
     destroyed_accounts |-> destroyed]

\* lines 102-109: load returns Ok(TriePrefixSets { .. }).
AssembleResult ==
    /\ pc = "assemble"
    /\ result' = Ok(TriePrefixSets(account_prefix_set, storage_prefix_sets,
                                   destroyed_accounts))
    /\ pc' = "done"
    /\ UNCHANGED <<store, cursors, locals, pool, log>>

Next ==
    \/ OpenAccountChangeSets
    \/ OpenHashedAccounts
    \/ WalkAccountChangeSets
    \/ ReadAccountEntry
    \/ \E w \in Workers : TakeEntry(w)
    \/ \E w \in Workers : HashAddress(w)
    \/ CollectHashedAddresses
    \/ BuildAccount
    \/ OpenStorageChangeSets
    \/ WalkStorageChangeSets
    \/ ReadStorageEntry
    \/ \E w \in Workers : HashStorageEntry(w)
    \/ CollectStorageHashes
    \/ BuildStorage
    \/ AssembleResult

Spec == Init /\ [][Next]_vars

\* ------------------------------------------------------------ properties

Lo == range[1]
Hi == range[2]
Elems(seq) == {seq[i] : i \in 1..Len(seq)}
Count(seq, x) == Cardinality({i \in 1..Len(seq) : seq[i] = x})
InBlockRange(b) == Lo <= b /\ b <= Hi

\* The change records of the store whose block number lies in [lo, hi].
AccountRowsInRange == {r \in Elems(AccountChangeSets) : InBlockRange(r[1])}
StorageRowsInRange == {r \in Elems(StorageChangeSets) : InBlockRange(r[1])}
AccountChanged == {r[2] : r \in AccountRowsInRange}
StorageChanged == {r[2] : r \in StorageRowsInRange}
SlotsChanged(a) == {r[3] : r \in {q \in StorageRowsInRange : q[2] = a}}
Path(k) == unpack(hash_key(k))

Returned == result.tag = "Ok"
Failed == result.tag = "Err"
ReadFailed(i) == log[i][3] \in DatabaseErrors
SomeReadFailed == \E i \in 1..Len(log) : ReadFailed(i)
Reads(table, op) == {i \in 1..Len(log) : log[i][1] = table /\ log[i][2] = op}

\* C1: all-or-nothing load. A TriePrefixSets is returned only when no read
\* failed and every read of the requested range was made: the three cursors
\* were opened, both logs were walked, every change record of the range was
\* read and every account record was probed; as soon as a read has failed the
\* only thing load returns is the error, with no value beside it.
C1_AllOrNothing ==
    /\ Returned =>
          /\ ~SomeReadFailed
          /\ Cardinality(Reads("AccountChangeSets", "cursor_read")) = 1
          /\ Cardinality(Reads("HashedAccounts", "cursor_read")) = 1
          /\ Cardinality(Reads("StorageChangeSets", "cursor_dup_read")) = 1
          /\ Cardinality(Reads("AccountChangeSets", "walk_range")) = 1
          /\ Cardinality(Reads("StorageChangeSets", "walk_range")) = 1
          /\ Cardinality(Reads("AccountChangeSets", "next")) =
                Cardinality(AccountRowsInRange)
          /\ Cardinality(Reads("HashedAccounts", "seek_exact")) =
                Cardinality(AccountRowsInRange)
          /\ Cardinality(Reads("StorageChangeSets", "next")) =
                Cardinality(StorageRowsInRange)
    /\ SomeReadFailed => Failed /\ DOMAIN result = {"tag", "error"}
    /\ pc = "failed" => Failed

\* A load that failed on a storage row after the account branch had already
\* filled the account-level set.
C1_Witness ==
    /\ Failed
    /\ log[Len(log)][1] = "StorageChangeSets"
    /\ log[Len(log)][2] = "next"
    /\ Len(storage_entries) >= 1
    /\ account_prefix_set # <<>>

\* C2: after a successful load destroyed_accounts is exactly the set of the
\* digests of the addresses of the account-change records of the range that
\* have no entry in the hashed-account snapshot; a digest present in the
\* snapshot is never in it, an account touched only by storage-change records
\* is never in it, and it is a subset of the account digests touched.
C2_DestroyedAccounts ==
    Returned =>
        /\ result.value.destroyed_accounts =
              {hash_key(a) : a \in AccountChanged} \ HashedAccounts
        /\ result.value.destroyed_accounts \cap HashedAccounts = {}
        /\ \A a \in StorageChanged \ AccountChanged :
              hash_key(a) \notin result.value.destroyed_accounts
        /\ result.value.destroyed_accounts \subseteq
              {hash_key(a) : a \in AccountChanged \cup StorageChanged}

\* A successful load that flagged a destroyed account while another account,
\* also missing from the snapshot, was touched by storage changes only.
C2_Witness ==
    /\ Returned
    /\ result.value.destroyed_accounts # {}
    /\ \E a \in StorageChanged \ AccountChanged : hash_key(a) \notin HashedAccounts

\* C3: in every returned TriePrefixSets each key of storage_prefix_sets has
\* its nibble path in account_prefix_set, also for an account that has no
\* account-change record in the range.
C3_StorageImpliesAccount ==
    Returned =>
        \A k \in DOMAIN result.value.storage_prefix_sets :
            unpack(k) \in Elems(result.value.account_prefix_set)

\* A successful load with a storage key of an account without account changes.
C3_Witness ==
    /\ Returned
    /\ \E a \in StorageChanged \ AccountChanged :
          hash_key(a) \in DOMAIN result.value.storage_prefix_sets

\* C4: after a successful load account_prefix_set holds the path of the
\* digest of address a if and only if a is carried by an account-change or a
\* storage-change record of a block b with lo <= b <= hi, and holds no other
\* path.
C4_AccountSetExact ==
    Returned =>
        /\ \A a \in Addresses :
              Path(a) \in Elems(result.value.account_prefix_set)
                 <=> a \in AccountChanged \cup StorageChanged
        /\ Elems(result.value.account_prefix_set) \subseteq {Path(a) : a \in Addresses}

\* A successful load of [lo, hi] with lo < hi, one record at block lo, one at
\* block hi, both addresses returned.
C4_Witness ==
    /\ Returned
    /\ Lo < Hi
    /\ \E r \in AccountRowsInRange, q \in StorageRowsInRange :
          /\ r[1] = Lo /\ q[1] = Hi /\ r[2] # q[2]
    /\ Len(result.value.account_prefix_set) = 2

\* A successful load whose store also holds a record outside the range, of an
\* address that the result leaves out.
C4_WitnessOutside ==
    /\ Returned
    /\ \E r \in Elems(AccountChangeSets) :
          /\ ~InBlockRange(r[1])
          /\ Path(r[2]) \notin Elems(result.value.account_prefix_set)
    /\ result.value.account_prefix_set # <<>>

\* C5: after a successful load the keys of storage_prefix_sets are exactly the
\* digests of the addresses with a storage-change record in the range, and the
\* set under hash(a) is exactly the paths of the digests of the slots changed
\* under a.
C5_StorageMapExact ==
    Returned =>
        /\ DOMAIN result.value.storage_prefix_sets =
              {hash_key(a) : a \in StorageChanged}
        /\ \A a \in StorageChanged :
              Elems(result.value.storage_prefix_sets[hash_key(a)]) =
                 {Path(k) : k \in SlotsChanged(a)}

\* A successful load with two slots changed under one account.
C5_Witness ==
    /\ Returned
    /\ \E a \in StorageChanged :
          /\ Cardinality(SlotsChanged(a)) = 2
          /\ Len(result.value.storage_prefix_sets[hash_key(a)]) = 2

\* The rows of a set of nibble paths in ascending order.
Ascending(S) == TableOf(S)

\* The TriePrefixSets that the content of the store and the range determine.
Determined ==
    [account_prefix_set |->
        Ascending({Path(a) : a \in AccountChanged \cup StorageChanged}),
     storage_prefix_sets |->
        [h \in {hash_key(a) : a \in StorageChanged} |->
            Ascending({Path(r[3]) : r \in {q \in StorageRowsInRange :
                                              hash_key(q[2]) = h}})],
     destroyed_accounts |-> {hash_key(a) : a \in AccountChanged} \ HashedAccounts]

\* C6: the TriePrefixSets returned is the one that the content of the store
\* and the range determine, whichever workers hashed the entries, in whichever
\* interleaving, and in whichever order the rows were read and inserted.
C6_Determinism == Returned => result.value = Determined

\* A successful load whose digests were computed by two workers and inserted
\* in an order that is not the ascending one.
C6_Witness ==
    /\ Returned
    /\ Cardinality(usedWorkers) >= 2
    /\ account_prefix_set # result.value.account_prefix_set

StorageOnlyScenario(c, k) ==
    /\ range = <<5, 5>>
    /\ AccountChangeSets = <<>>
    /\ StorageChangeSets = << <<5, c, k>> >>

\* C8 as stated: in the storage-only scenario the load returns the path of
\* hash(c), the storage set {path of hash(k)} under hash(c), and
\* destroyed_accounts holds hash(c) exactly when the snapshot has no entry
\* for it.
C8_AsStated ==
    \A c \in Addresses, k \in StorageKeys :
        (StorageOnlyScenario(c, k) /\ Returned) =>
            /\ result.value.account_prefix_set = <<Path(c)>>
            /\ DOMAIN result.value.storage_prefix_sets = {hash_key(c)}
            /\ result.value.storage_prefix_sets[hash_key(c)] = <<Path(k)>>
            /\ (hash_key(c) \in result.value.destroyed_accounts
                   <=> hash_key(c) \notin HashedAccounts)

\* C8 amended: in the storage-only scenario the load returns the path of
\* hash(c), the storage set {path of hash(k)} under hash(c), and an empty
\* destroyed_accounts, whether or not the snapshot has an entry for hash(c).
C8_StorageOnly ==
    \A c \in Addresses, k \in StorageKeys :
        (StorageOnlyScenario(c, k) /\ Returned) =>
            /\ result.value.account_prefix_set = <<Path(c)>>
            /\ DOMAIN result.value.storage_prefix_sets = {hash_key(c)}
            /\ result.value.storage_prefix_sets[hash_key(c)] = <<Path(k)>>
            /\ result.value.destroyed_accounts = {}

\* The storage-only scenario loaded with hash(c) missing from the snapshot.
C8_Witness ==
    /\ Returned
    /\ \E c \in Addresses, k \in StorageKeys :
          /\ StorageOnlyScenario(c, k)
          /\ hash_key(c) \notin HashedAccounts

Hashing == pc \in {"hash_addresses", "hash_storage"}
Idle == \A w \in Workers : claimed[w] = 0

\* A step changes only slot i of the output, from empty to the value v.
WritesOnlySlot(old, new, i, v) ==
    /\ Len(new) = Len(old)
    /\ old[i] = EmptySlot
    /\ new[i] = v
    /\ \A j \in 1..Len(old) : j # i => new[j] = old[j]

\* The collected outputs of the two digest stages, entry by entry.
CollectedInOrder ==
    /\ pc = "build_accounts" =>
          /\ Len(hashed_addresses) = Len(addresses)
          /\ \A i \in 1..Len(addresses) :
                hashed_addresses[i] = <<addresses[i], hash_key(addresses[i])>>
    /\ pc = "build_storage" =>
          /\ Len(storage_hashes) = Len(storage_entries)
          /\ \A i \in 1..Len(storage_entries) :
                storage_hashes[i] = <<hash_key(storage_entries[i][1]),
                                      hash_key(storage_entries[i][2])>>

\* While a digest stage runs, no step touches the three output structures or
\* reads the store, and a step that changes the output of the stage is a
\* worker writing the digest of the entry it holds into the slot of that entry.
StageIsolated ==
    Hashing =>
        /\ UNCHANGED <<account_prefix_set, storage_prefix_sets, destroyed_accounts, log>>
        /\ hashed_addresses' # hashed_addresses =>
              \E w \in Workers :
                  /\ claimed[w] # 0
                  /\ claimed'[w] = 0
                  /\ WritesOnlySlot(hashed_addresses, hashed_addresses', claimed[w],
                                    <<addresses[claimed[w]],
                                      hash_key(addresses[claimed[w]])>>)
        /\ storage_hashes' # storage_hashes =>
              \E w \in Workers :
                  /\ claimed[w] # 0
                  /\ claimed'[w] = 0
                  /\ WritesOnlySlot(storage_hashes, storage_hashes', claimed[w],
                                    <<hash_key(storage_entries[claimed[w]][1]),
                                      hash_key(storage_entries[claimed[w]][2])>>)

\* The builder inserts only when the workers of the branch have all finished.
BuilderAfterJoin ==
    (\/ account_prefix_set' # account_prefix_set
     \/ storage_prefix_sets' # storage_prefix_sets
     \/ destroyed_accounts' # destroyed_accounts) =>
        /\ Idle
        /\ pc = "build_accounts" =>
              \A i \in 1..Len(addresses) : hashed_addresses[i] # EmptySlot
        /\ pc = "build_storage" =>
              \A i \in 1..Len(storage_entries) : storage_hashes[i] # EmptySlot
        /\ pc \in {"build_accounts", "build_storage"}

\* C9: while the workers of a digest stage run, the account-level set, the
\* storage mapping and the destroyed set are not modified and the store is
\* not read; each worker writes only the slot of its own entry, so the
\* collected list is as long as the input and its i-th element is the digest
\* of the i-th entry; the builder's insertions happen only after every worker
\* of the branch has finished.
C9_Isolation == [](CollectedInOrder) /\ [][StageIsolated /\ BuilderAfterJoin]_vars

\* Two workers hashing at once, the second entry written before the first.
C9_Witness ==
    /\ pc = "hash_addresses"
    /\ Len(hashed_addresses) = 2
    /\ hashed_addresses[1] = EmptySlot
    /\ hashed_addresses[2] # EmptySlot
    /\ \E w \in Workers : claimed[w] = 1

\* C10: a failed read is the last read of the load (no further read, no
\* retry) and load returns exactly its error; after a failure on the account
\* change log the snapshot is never probed and the storage change log never
\* touched, and after a failed probe the storage change log is never touched.
C10_ErrorPropagation ==
    /\ \A i \in 1..Len(log) : ReadFailed(i) => i = Len(log)
    /\ SomeReadFailed => Failed /\ result.error = log[Len(log)][3]
    /\ Failed => SomeReadFailed
    /\ (\E i \in Reads("AccountChangeSets", "cursor_read")
               \cup Reads("AccountChangeSets", "walk_range")
               \cup Reads("AccountChangeSets", "next") : ReadFailed(i)) =>
          /\ Reads("HashedAccounts", "seek_exact") = {}
          /\ \A i \in 1..Len(log) : log[i][1] # "StorageChangeSets"
    /\ (\E i \in Reads("HashedAccounts", "seek_exact") : ReadFailed(i)) =>
          \A i \in 1..Len(log) : log[i][1] # "StorageChangeSets"

\* A load that failed on the second probe of the snapshot.
C10_Witness ==
    /\ Failed
    /\ log[Len(log)][2] = "seek_exact"
    /\ Cardinality(Reads("HashedAccounts", "seek_exact")) = 2
    /\ result.error = "Decode"
====
